---- MODULE Spec2Model ----
(***************************************************************************)
(* A model of src/git/diff.py: the GitDiff command (status / add -N /      *)
(* diff / reset continuation chain) and the GitGotoDiff command (backward  *)
(* scan of a diff view, hunk header parse, path resolution and prompt).    *)
(*                                                                         *)
(* Text is a sequence of one-character strings; a position ("point") is a  *)
(* 0-based offset between characters, as in the host editor.               *)
(***************************************************************************)
EXTENDS Integers, Sequences, FiniteSets, TLC

\* ------------------------------------------------------------------ bounds
\* Number of GitDiff.run invocations on one command object.
MaxInv == 2
\* Number of lines of the diff view's text.
MaxLines == 4
\* Number of GitGotoDiff.run invocations on one view.
MaxNav == 1
\* Cursor positions tried on each line: offsets 0..MaxCol from the line start.
MaxCol == 1

\* ------------------------------------------------------------ text helpers
Whitespace == {" ", "\t", "\n", "\r"}

Digit == {"0", "1", "2", "3", "4", "5", "6", "7", "8", "9"}

\* str.startswith
StartsWith(s, p) == Len(s) >= Len(p) /\ SubSeq(s, 1, Len(p)) = p

\* s[n:]
Drop(s, n) == SubSeq(s, n + 1, Len(s))

\* str.rstrip()
RECURSIVE RStrip(_)
RStrip(s) ==
    IF s # <<>> /\ s[Len(s)] \in Whitespace THEN RStrip(SubSeq(s, 1, Len(s) - 1)) ELSE s

\* str.lstrip()
RECURSIVE LStrip(_)
LStrip(s) ==
    IF s # <<>> /\ s[1] \in Whitespace THEN LStrip(Tail(s)) ELSE s

\* str.strip()
Strip(s) == LStrip(RStrip(s))

\* str.split('\n'): always at least one (possibly empty) piece; a is the
\* index where the current piece starts, i the index looked at
RECURSIVE SplitFrom(_, _, _)
SplitFrom(s, a, i) ==
    IF i > Len(s) THEN <<SubSeq(s, a, Len(s))>>
    ELSE IF s[i] = "\n" THEN <<SubSeq(s, a, i - 1)>> \o SplitFrom(s, i + 1, i + 1)
    ELSE SplitFrom(s, a, i + 1)

Split(s) == SplitFrom(s, 1, 1)

\* '\n'.join(lines)
RECURSIVE JoinLines(_)
JoinLines(ls) ==
    IF ls = <<>> THEN <<>>
    ELSE IF Len(ls) = 1 THEN ls[1]
    ELSE ls[1] \o <<"\n">> \o JoinLines(Tail(ls))

\* ----------------------------------------------------------------- GitDiff
\* The working tree: files that are not tracked (fixed during a behaviour),
\* listed in the order the status listing prints them.
Paths == << <<"a">>, <<"b">> >>

\* get_file_name() of the command (the file or directory the diff is about)
FileArg == <<"w">>

\* Outputs the diff command may deliver to diff_done.
DiffOutputs == { <<>>, <<" ", "\n">>, <<"d", "\n">> }

VARIABLES
    untracked,          \* working tree: set of untracked paths
    modified,           \* working tree: TRUE when a tracked file is modified
    ita,                \* index: paths staged with intent-to-add
    started,            \* number of GitDiff.run invocations so far
    ignore_whitespace,  \* self.ignore_whitespace
    has_empty_stages,   \* whether the attribute self.empty_stages exists
    empty_stages,       \* self.empty_stages
    staging,            \* per invocation: what s.get('diff_untracked_files') gave
    inflight,           \* per invocation: the command running, with its callback
    log,                \* per invocation: commands started and finished, in order
    listing,            \* per invocation: the output of its status command
    shown,              \* per invocation: what was displayed
    raised              \* per invocation: an exception left a callback

diffvars == <<untracked, modified, ita, started, ignore_whitespace, has_empty_stages,
              empty_stages, staging, inflight, log, listing, shown, raised>>

Invs == 1..MaxInv

NoCmd == [argv |-> <<>>, paths |-> <<>>, cb |-> "none"]

Cmd(argv, paths, cb) == [argv |-> argv, paths |-> paths, cb |-> cb]

Started(argv, paths) == [ev |-> "start", argv |-> argv, paths |-> paths]

\* the log of invocation i once its running command (if any) has finished
Finished(i) ==
    IF inflight[i] = NoCmd THEN log[i]
    ELSE Append(log[i], [ev |-> "finish", argv |-> inflight[i].argv,
                         paths |-> inflight[i].paths])

\* run_command(command, callback): the command is started, the callback is
\* called later on the control thread with the command's output
run_command(i, argv, paths, cb) ==
    /\ log' = [log EXCEPT ![i] = Append(Finished(i), Started(argv, paths))]
    /\ inflight' = [inflight EXCEPT ![i] = Cmd(argv, paths, cb)]

\* a callback that starts no further command
no_command(i) ==
    /\ log' = [log EXCEPT ![i] = Finished(i)]
    /\ inflight' = [inflight EXCEPT ![i] = NoCmd]

\* GitDiff.continue_diff, reading self.ignore_whitespace as iw
continue_diff(i, iw) ==
    run_command(i,
        <<"git", "diff", "--no-color">>
            \o (IF iw THEN <<"--ignore-all-space", "--ignore-blank-lines">> ELSE <<>>)
            \o <<"--">>,
        <<FileArg>>, "diff_done")

\* GitDiff.stage_untracked_files
stage_untracked_files(i) ==
    run_command(i, <<"git", "status", "-uall", "--porcelain">>, <<>>,
                "stage_untracked_files_result")

\* GitDiff.run
GitDiff_run(iw, setting) ==
    /\ started < MaxInv
    /\ started' = started + 1
    /\ ignore_whitespace' = iw
    /\ staging' = [staging EXCEPT ![started + 1] = setting]
    /\ IF setting THEN stage_untracked_files(started + 1)
                  ELSE continue_diff(started + 1, iw)
    /\ UNCHANGED <<untracked, modified, ita, has_empty_stages, empty_stages,
                   listing, shown, raised>>

\* Output of 'git status -uall --porcelain' for the current tree and index
InOrder(S) == SelectSeq(Paths, LAMBDA p : p \in S)

RECURSIVE StatusLines(_, _)
StatusLines(prefix, ps) ==
    IF ps = <<>> THEN <<>>
    ELSE <<prefix \o ps[1] \o <<"\n">> >> \o StatusLines(prefix, Tail(ps))

RECURSIVE Concat(_)
Concat(ss) == IF ss = <<>> THEN <<>> ELSE ss[1] \o Concat(Tail(ss))

StatusOutput ==
    Concat((IF modified THEN << <<" ", "M", " ", "m", "\n">> >> ELSE <<>>)
           \o StatusLines(<<" ", "A", " ">>, InOrder(ita))
           \o StatusLines(<<"?", "?", " ">>, InOrder(untracked \ ita)))

\* [x[3:] for x in lines if x], without the test for the '??' prefix
UntrackedOf_anyStatus(result) ==
    LET lines == Split(RStrip(result))
        sel == SelectSeq(lines, LAMBDA x : x # <<>>)
    IN [k \in 1..Len(sel) |-> Drop(sel[k], 3)]

\* [x[3:] for x in lines if x.startswith('??')]
UntrackedOf(result) ==
    LET lines == Split(RStrip(result))
        sel == SelectSeq(lines, LAMBDA x : StartsWith(x, <<"?", "?">>))
    IN [k \in 1..Len(sel) |-> Drop(sel[k], 3)]

\* stage_untracked_files_result calling continue_diff itself instead of
\* passing it as the callback of the add command
stage_untracked_files_result_nowait(i) ==
    /\ inflight[i].cb = "stage_untracked_files_result"
    /\ LET stages == UntrackedOf(StatusOutput)
       IN /\ empty_stages' = stages
          /\ has_empty_stages' = TRUE
          /\ listing' = [listing EXCEPT ![i] = StatusOutput]
          /\ IF Len(stages) > 0
             THEN /\ log' = [log EXCEPT ![i] =
                        Finished(i) \o <<Started(<<"git", "add", ".", "-N">>, <<>>),
                                         Started(<<"git", "diff", "--no-color", "--">>,
                                                 <<FileArg>>)>>]
                  /\ inflight' = [inflight EXCEPT ![i] =
                        Cmd(<<"git", "diff", "--no-color", "--">>, <<FileArg>>, "diff_done")]
             ELSE no_command(i)
    /\ UNCHANGED <<untracked, modified, ita, started, ignore_whitespace, staging,
                   shown, raised>>

\* stage_untracked_files_result without the test 'len(self.empty_stages) > 0'
stage_untracked_files_result_always(i) ==
    /\ inflight[i].cb = "stage_untracked_files_result"
    /\ LET stages == UntrackedOf(StatusOutput)
       IN /\ empty_stages' = stages
          /\ has_empty_stages' = TRUE
          /\ listing' = [listing EXCEPT ![i] = StatusOutput]
          /\ run_command(i, <<"git", "add", ".", "-N">>, <<>>, "continue_diff")
    /\ UNCHANGED <<untracked, modified, ita, started, ignore_whitespace, staging,
                   shown, raised>>

\* GitDiff.stage_untracked_files_result, called with the status listing
stage_untracked_files_result(i) ==
    /\ inflight[i].cb = "stage_untracked_files_result"
    /\ LET stages == UntrackedOf(StatusOutput)
       IN /\ empty_stages' = stages
          /\ has_empty_stages' = TRUE
          /\ listing' = [listing EXCEPT ![i] = StatusOutput]
          /\ IF Len(stages) > 0
             THEN run_command(i, <<"git", "add", ".", "-N">>, <<>>, "continue_diff")
             ELSE no_command(i)
    /\ UNCHANGED <<untracked, modified, ita, started, ignore_whitespace, staging,
                   shown, raised>>

\* 'git add . -N' finishes (every untracked file becomes an intent-to-add
\* entry) and its callback GitDiff.continue_diff runs
add_done(i) ==
    /\ inflight[i].cb = "continue_diff"
    /\ ita' = ita \cup untracked
    /\ continue_diff(i, ignore_whitespace)
    /\ UNCHANGED <<untracked, modified, started, ignore_whitespace, has_empty_stages,
                   empty_stages, staging, listing, shown, raised>>

\* GitDiff.reset_untracked_files: the command it issues, if any
reset_untracked_files(i) ==
    IF ~has_empty_stages
    THEN \* AttributeError: 'self.empty_stages' does not exist
         /\ raised' = [raised EXCEPT ![i] = TRUE]
         /\ no_command(i)
    ELSE /\ raised' = raised
         /\ IF Len(empty_stages) > 0
            THEN run_command(i, <<"git", "reset", "--quiet", "--">>, empty_stages, "none")
            ELSE no_command(i)

\* not result.strip()
IsBlank(result) == Strip(result) = <<>>

\* GitDiff.diff_done, called with the diff command's output
diff_done(i, result, diff_panel) ==
    /\ inflight[i].cb = "diff_done"
    /\ IF IsBlank(result)
       THEN /\ shown' = [shown EXCEPT ![i] = "No output"]
            /\ no_command(i)
            /\ raised' = raised
       ELSE /\ shown' = [shown EXCEPT ![i] = IF diff_panel THEN "panel" ELSE "scratch"]
            /\ reset_untracked_files(i)
    /\ UNCHANGED <<untracked, modified, ita, started, ignore_whitespace, has_empty_stages,
                   empty_stages, staging, listing>>

\* 'git reset --quiet -- paths' finishes; it was started without a callback
reset_done(i) ==
    /\ inflight[i].argv = <<"git", "reset", "--quiet", "--">>
    /\ ita' = ita \ {inflight[i].paths[k] : k \in 1..Len(inflight[i].paths)}
    /\ no_command(i)
    /\ UNCHANGED <<untracked, modified, started, ignore_whitespace, has_empty_stages,
                   empty_stages, staging, listing, shown, raised>>

\* ------------------------------------------------------------- GitGotoDiff
\* Optional values: Python's None, or a value
None == [some |-> FALSE, v |-> <<>>]

Some(x) == [some |-> TRUE, v |-> x]

\* Python truth value of a string or None
Truthy(o) == o.some /\ o.v # <<>>

\* Lines a diff view is made of
FileMarkerLine == <<"+", "+", "+", " ", "b", "/", "f">>

\* a well-formed hunk header: old length given, new length left out
HunkLine == <<"@", "@", " ", "-", "7", ",", "2", " ", "+", "1", "2", " ", "@", "@">>

\* a malformed hunk header: the closing "@@" is cut short
BadHunkLine == <<"@", "@", " ", "-", "1", " ", "+", "3", " ", "@">>

AddedLine == <<"+", "a">>

RemovedLine == <<"-", "b">>

ContextLine == <<" ", "c">>

LineAlphabet ==
    {FileMarkerLine, HunkLine, BadHunkLine, AddedLine, RemovedLine, ContextLine}

Texts == UNION {[1..n -> LineAlphabet] : n \in 1..MaxLines}

\* What get_open_folder_from_window / git_root may find, and a directory a
\* user may type instead
RootDir == <<"r">>

OtherDir == <<"q">>

Hints == {None, Some(RootDir)}

\* The user confirms the panel's initial text as it is, or types another directory
PromptInputs(initial) == {initial, OtherDir}

VARIABLES
    text,           \* the view's text
    git_root_dir,   \* view.settings()["git_root_dir"]: None or a string
    writes,         \* number of view.settings().set("git_root_dir", ...) calls
    attrs,          \* instance attributes of the command that exist
    file_name,      \* self.file_name
    column,         \* self.column
    goto_line,      \* self.goto_line
    navs,           \* number of GitGotoDiff.run invocations so far
    cursor,         \* v.sel()[0].a of the latest run that passed the scope test
    outcome,        \* how the latest run ended, or "cancelled" after a dismissal
    line_offset,    \* line_offset at the end of the latest run's scan
    hunk_line,      \* hunk_line at the end of the latest run's scan
    checked,        \* the latest os.path.isfile call: candidate base, path, result
    messages,       \* number of sublime.status_message("No hunk info") calls
    prompts,        \* input panels waiting for the user
    requested,      \* per waiting panel: the target its request computed
    opened,         \* window.open_file requests, in order
    loading,        \* opened views still loading (do_when is polling)
    positioned      \* goto_xy calls: view, line, column

gotovars == <<text, git_root_dir, writes, attrs, file_name, column, goto_line, navs,
              cursor, outcome, line_offset, hunk_line, checked, messages, prompts,
              requested, opened, loading, positioned>>

\* GitGotoDiff.run taken one loop iteration at a time
VARIABLES
    pt,             \* the local pt of a run that is inside its loop
    iterations      \* loop iterations the latest run has made

scanvars == <<pt, iterations>>

vars == <<diffvars, gotovars, scanvars>>

\* view.substr(Region(a, b))
Substr(t, a, b) == SubSeq(t, a + 1, b)

\* view.line(p).a: start of the line containing point p
RECURSIVE LineA(_, _)
LineA(t, p) == IF p <= 0 \/ t[p] = "\n" THEN p ELSE LineA(t, p - 1)

\* view.line(p).b: end of the line containing point p, newline excluded
RECURSIVE LineB(_, _)
LineB(t, p) == IF p >= Len(t) \/ t[p + 1] = "\n" THEN p ELSE LineB(t, p + 1)

LineText(t, p) == Substr(t, LineA(t, p), LineB(t, p))

\* The diff markup in view.scope_name(p): the diff syntax marks a line by
\* its first character, the file header lines ('+++ ', '--- ') apart
ScopeOfLine(l) ==
    IF StartsWith(l, <<"+">>) /\ ~StartsWith(l, <<"+", "+", "+", " ">>)
    THEN "markup.inserted.diff"
    ELSE IF StartsWith(l, <<"-">>) /\ ~StartsWith(l, <<"-", "-", "-", " ">>)
    THEN "markup.deleted.diff"
    ELSE "other"

\* view.scope_name(p)
scope_name(t, p) == ScopeOfLine(LineText(t, p))

\* scope_markup_inserted
ScopeInserted(t, p) == scope_name(t, p) = "markup.inserted.diff"

\* scope_markup_deleted
ScopeDeleted(t, p) == scope_name(t, p) = "markup.deleted.diff"

\* ScanStep without the test 'not lineContent.startswith("-")'
ScanStep_countsRemoved(t, st) ==
    LET a == LineA(t, st.pt)
        b == LineB(t, st.pt)
        lineContent == Substr(t, a, b)
        up == LineA(t, st.pt - 1)
    IN IF StartsWith(lineContent, <<"@", "@">>)
       THEN [st EXCEPT !.hunk_line = IF ~Truthy(st.hunk_line) THEN Some(lineContent) ELSE @,
                       !.pt = up]
       ELSE IF StartsWith(lineContent, <<"+", "+", "+", " ", "b", "/">>)
       THEN [st EXCEPT !.file_name = Some(Strip(Substr(t, a + 6, b))), !.break = TRUE]
       ELSE IF ~Truthy(st.hunk_line)
       THEN [st EXCEPT !.line_offset = @ + 1, !.pt = up]
       ELSE [st EXCEPT !.pt = up]

\* ScanStep with 'pt = v.line(pt).a' in the place of 'pt = v.line(pt - 1).a'
ScanStep_staysOnLine(t, st) ==
    LET a == LineA(t, st.pt)
        b == LineB(t, st.pt)
        lineContent == Substr(t, a, b)
        up == LineA(t, st.pt)
    IN IF StartsWith(lineContent, <<"@", "@">>)
       THEN [st EXCEPT !.hunk_line = IF ~Truthy(st.hunk_line) THEN Some(lineContent) ELSE @,
                       !.pt = up]
       ELSE IF StartsWith(lineContent, <<"+", "+", "+", " ", "b", "/">>)
       THEN [st EXCEPT !.file_name = Some(Strip(Substr(t, a + 6, b))), !.break = TRUE]
       ELSE IF ~Truthy(st.hunk_line) /\ ~StartsWith(lineContent, <<"-">>)
       THEN [st EXCEPT !.line_offset = @ + 1, !.pt = up]
       ELSE [st EXCEPT !.pt = up]

\* ScanStep with the test 'not lineContent.startswith("+")' in the place of
\* 'not lineContent.startswith("-")'
ScanStep_skipsAdded(t, st) ==
    LET a == LineA(t, st.pt)
        b == LineB(t, st.pt)
        lineContent == Substr(t, a, b)
        up == LineA(t, st.pt - 1)
    IN IF StartsWith(lineContent, <<"@", "@">>)
       THEN [st EXCEPT !.hunk_line = IF ~Truthy(st.hunk_line) THEN Some(lineContent) ELSE @,
                       !.pt = up]
       ELSE IF StartsWith(lineContent, <<"+", "+", "+", " ", "b", "/">>)
       THEN [st EXCEPT !.file_name = Some(Strip(Substr(t, a + 6, b))), !.break = TRUE]
       ELSE IF ~Truthy(st.hunk_line) /\ ~StartsWith(lineContent, <<"+">>)
       THEN [st EXCEPT !.line_offset = @ + 1, !.pt = up]
       ELSE [st EXCEPT !.pt = up]

\* ScanStep without the test 'if not hunk_line': every header met replaces
\* the remembered one
ScanStep_lastHeader(t, st) ==
    LET a == LineA(t, st.pt)
        b == LineB(t, st.pt)
        lineContent == Substr(t, a, b)
        up == LineA(t, st.pt - 1)
    IN IF StartsWith(lineContent, <<"@", "@">>)
       THEN [st EXCEPT !.hunk_line = Some(lineContent), !.pt = up]
       ELSE IF StartsWith(lineContent, <<"+", "+", "+", " ", "b", "/">>)
       THEN [st EXCEPT !.file_name = Some(Strip(Substr(t, a + 6, b))), !.break = TRUE]
       ELSE IF ~Truthy(st.hunk_line) /\ ~StartsWith(lineContent, <<"-">>)
       THEN [st EXCEPT !.line_offset = @ + 1, !.pt = up]
       ELSE [st EXCEPT !.pt = up]

\* One iteration of the body of 'while pt > 0' in GitGotoDiff.run
ScanStep(t, st) ==
    LET a == LineA(t, st.pt)
        b == LineB(t, st.pt)
        lineContent == Substr(t, a, b)
        up == LineA(t, st.pt - 1)
    IN IF StartsWith(lineContent, <<"@", "@">>)
       THEN [st EXCEPT !.hunk_line = IF ~Truthy(st.hunk_line) THEN Some(lineContent) ELSE @,
                       !.pt = up]
       ELSE IF StartsWith(lineContent, <<"+", "+", "+", " ", "b", "/">>)
       THEN [st EXCEPT !.file_name = Some(Strip(Substr(t, a + 6, b))), !.break = TRUE]
       ELSE IF ~Truthy(st.hunk_line) /\ ~StartsWith(lineContent, <<"-">>)
       THEN [st EXCEPT !.line_offset = @ + 1, !.pt = up]
       ELSE [st EXCEPT !.pt = up]

\* The loop 'while pt > 0: ... break ... pt = v.line(pt - 1).a'
RECURSIVE ScanLoop(_, _)
ScanLoop(t, st) ==
    IF st.pt > 0 /\ ~st.break THEN ScanLoop(t, ScanStep(t, st)) ELSE st

\* Scan starting at the line above the cursor's line
Scan_fromAbove(t, beg) ==
    ScanLoop(t, [pt |-> LineA(t, LineA(t, beg) - 1), hunk_line |-> None,
                 file_name |-> None, line_offset |-> 0, break |-> FALSE])

\* The scan of GitGotoDiff.run for a cursor at beg
Scan(t, beg) ==
    ScanLoop(t, [pt |-> LineA(t, beg), hunk_line |-> None, file_name |-> None,
                 line_offset |-> 0, break |-> FALSE])

\* Index after the literal lit when s has it at index i, else 0; 0 stays 0.
\* (Here and below the index is bound once, as j, so that it is computed
\* once however often it is used.)
Lit(s, i, lit) ==
    CHOOSE r \in
        {IF j > 0 /\ j + Len(lit) - 1 <= Len(s) /\ SubSeq(s, j, j + Len(lit) - 1) = lit
         THEN j + Len(lit) ELSE 0 : j \in {i}} : TRUE

\* Index after the longest run of digits of s that starts at index i
RECURSIVE DigitsEnd(_, _)
DigitsEnd(s, i) ==
    IF i >= 1 /\ i <= Len(s) /\ s[i] \in Digit THEN DigitsEnd(s, i + 1) ELSE i

\* \d+ at index i: index after it, else 0
Number(s, i) ==
    CHOOSE r \in {IF j > 0 /\ DigitsEnd(s, j) > j THEN DigitsEnd(s, j) ELSE 0 : j \in {i}} :
        TRUE

\* (,(\d+))? at index i: index after it (i itself when the group is absent)
OptLength(s, i) ==
    CHOOSE r \in
        {IF Number(s, Lit(s, j, <<",">>)) > 0 THEN Number(s, Lit(s, j, <<",">>)) ELSE j
            : j \in {i}} : TRUE

\* re.match(r"^@@ -(\d+)(,(\d+))? \+(\d+)(,(\d+))? @@.*", s): whether it
\* matches, and group 4
HunkMatch(s) ==
    LET p1 == Lit(s, 1, <<"@", "@", " ", "-">>)
        p2 == Number(s, p1)
        p3 == IF p2 > 0 THEN OptLength(s, p2) ELSE 0
        p4 == Lit(s, p3, <<" ", "+">>)
        p5 == Number(s, p4)
        p6 == IF p5 > 0 THEN OptLength(s, p5) ELSE 0
        p7 == Lit(s, p6, <<" ", "@", "@">>)
    IN [ok |-> p7 > 0, group4 |-> IF p5 > 0 THEN SubSeq(s, p4, p5 - 1) ELSE <<>>]

DigitSeq == <<"0", "1", "2", "3", "4", "5", "6", "7", "8", "9">>

DigitVal(c) == (CHOOSE k \in 1..Len(DigitSeq) : DigitSeq[k] = c) - 1

\* int(digits)
RECURSIVE ToInt(_)
ToInt(ds) ==
    IF ds = <<>> THEN 0
    ELSE ToInt(SubSeq(ds, 1, Len(ds) - 1)) * Len(DigitSeq) + DigitVal(ds[Len(ds)])

\* os.path.join(base, rel) for strings
Join(base, rel) ==
    IF StartsWith(rel, <<"/">>) THEN rel
    ELSE IF base = <<>> \/ base[Len(base)] = "/" THEN base \o rel
    ELSE base \o <<"/">> \o rel

\* do_when(lambda: not new_view.is_loading(), lambda: goto_xy(new_view,
\* self.goto_line, self.column)) for the view just opened as number n;
\* gl and col are the attribute values at the time of the call
do_when(n, loaded, gl, col) ==
    IF loaded
    THEN /\ positioned' = Append(positioned, [view |-> n, line |-> gl, column |-> col])
         /\ loading' = loading
    ELSE /\ loading' = loading \cup {n}
         /\ positioned' = positioned

\* GitGotoDiff.on_path_confirmed(dir), with self.file_name = fn,
\* self.goto_line = gl, self.column = col; ok says whether it returned
\* (FALSE: os.path.join raised TypeError on a None file name)
on_path_confirmed(dir, fn, gl, col) ==
    /\ IF git_root_dir # Some(dir)
       THEN git_root_dir' = Some(dir) /\ writes' = writes + 1
       ELSE UNCHANGED <<git_root_dir, writes>>
    /\ IF fn.some
       THEN /\ opened' = Append(opened, Join(dir, fn.v))
            /\ \E loaded \in BOOLEAN : do_when(Len(opened) + 1, loaded, gl, col)
       ELSE UNCHANGED <<opened, loading, positioned>>

\* The candidate base directory, the composed path and the prompt's initial
\* text in GitGotoDiff.run, for a file name fn and what the window's open
\* folder and git_root give (hint)
Candidate(fn, hint) ==
    LET base == IF ~Truthy(git_root_dir) THEN hint ELSE git_root_dir
    IN [base |-> base,
        full |-> IF Truthy(base) THEN Join(base.v, fn) ELSE fn,
        dir |-> IF Truthy(base) THEN base.v ELSE <<>>]

\* resolve_path with the test 'not os.path.isfile(...)' inverted
resolve_path_inverted(fn, gl, col) ==
    IF ~fn.some
    THEN /\ outcome' = "raised"
         /\ UNCHANGED <<git_root_dir, writes, checked, prompts, requested, opened,
                        loading, positioned>>
    ELSE \E hint \in Hints, exists \in BOOLEAN :
         LET c == Candidate(fn.v, hint)
         IN /\ checked' = [base |-> c.base, path |-> c.full, exists |-> exists]
            /\ IF exists
               THEN /\ outcome' = "prompt"
                    /\ prompts' = Append(prompts, [caption |-> fn.v, initial |-> c.dir])
                    /\ requested' = Append(requested,
                                           [file |-> fn.v, line |-> gl, column |-> col])
                    /\ UNCHANGED <<git_root_dir, writes, opened, loading, positioned>>
               ELSE /\ outcome' = "open"
                    /\ prompts' = prompts
                    /\ requested' = requested
                    /\ on_path_confirmed(c.dir, fn, gl, col)

\* The path resolution at the end of GitGotoDiff.run, with self.file_name =
\* fn, self.goto_line = gl, self.column = col. os.path.isfile answers exists.
resolve_path(fn, gl, col) ==
    IF ~fn.some
    THEN \* os.path.join(dir, None) or os.path.isfile(None) raises TypeError
         /\ outcome' = "raised"
         /\ UNCHANGED <<git_root_dir, writes, checked, prompts, requested, opened,
                        loading, positioned>>
    ELSE \E hint \in Hints, exists \in BOOLEAN :
         LET c == Candidate(fn.v, hint)
         IN /\ checked' = [base |-> c.base, path |-> c.full, exists |-> exists]
            /\ IF ~exists
               THEN \* show_input_panel(caption, git_root_dir, on_path_confirmed, ...)
                    /\ outcome' = "prompt"
                    /\ prompts' = Append(prompts, [caption |-> fn.v, initial |-> c.dir])
                    /\ requested' = Append(requested,
                                           [file |-> fn.v, line |-> gl, column |-> col])
                    /\ UNCHANGED <<git_root_dir, writes, opened, loading, positioned>>
               ELSE /\ outcome' = "open"
                    /\ prompts' = prompts
                    /\ requested' = requested
                    /\ on_path_confirmed(c.dir, fn, gl, col)

\* GitGotoDiff.run from the end of its loop on (lines 127-158), with the
\* loop's results st and self.column = col
after_scan(st, col) ==
    \E hunk \in {IF st.hunk_line.some THEN HunkMatch(st.hunk_line.v)
                 ELSE [ok |-> FALSE, group4 |-> <<>>]} :
    \E gl \in {ToInt(hunk.group4) + st.line_offset - 1} :
       /\ column' = col
       /\ file_name' = st.file_name
       /\ line_offset' = st.line_offset
       /\ hunk_line' = st.hunk_line
       /\ IF ~st.hunk_line.some
          THEN \* re.match(pattern, None) raises TypeError
               /\ outcome' = "raised"
               /\ attrs' = attrs \cup {"column", "file_name"}
               /\ UNCHANGED <<git_root_dir, writes, goto_line, checked, messages,
                              prompts, requested, opened, loading, positioned>>
          ELSE IF ~hunk.ok
          THEN /\ outcome' = "No hunk info"
               /\ messages' = messages + 1
               /\ attrs' = attrs \cup {"column", "file_name"}
               /\ UNCHANGED <<git_root_dir, writes, goto_line, checked,
                              prompts, requested, opened, loading, positioned>>
          ELSE /\ goto_line' = gl
               /\ attrs' = attrs \cup {"column", "file_name", "goto_line"}
               /\ messages' = messages
               /\ resolve_path(st.file_name, gl, col)

\* The body of GitGotoDiff.run (the git_goto_diff command) with the cursor
\* at beg
git_goto_diff(beg) ==
    /\ UNCHANGED text
    /\ IF ~ScopeInserted(text, beg) /\ ~ScopeDeleted(text, beg)
       THEN /\ outcome' = "NotApplicable"
            /\ UNCHANGED <<git_root_dir, writes, attrs, file_name, column, goto_line,
                           cursor, line_offset, hunk_line, checked, messages, prompts,
                           requested, opened, loading, positioned>>
       ELSE \E st \in {Scan(text, beg)} :
            /\ cursor' = beg
            /\ after_scan(st, beg - LineA(text, beg) - 1)

\* GitGotoDiff.run with the cursor at beg
GitGotoDiff_run(beg) ==
    /\ navs < MaxNav
    /\ navs' = navs + 1
    /\ git_goto_diff(beg)
    /\ UNCHANGED <<diffvars, scanvars>>

\* GitGotoDiff.run while input panels of earlier runs may still be waiting:
\* one run more than MaxNav
GitGotoDiff_run_again(beg) ==
    /\ navs < MaxNav + 1
    /\ navs' = navs + 1
    /\ git_goto_diff(beg)
    /\ UNCHANGED <<diffvars, scanvars>>

\* s without its k-th element
Remove(s, k) == SubSeq(s, 1, k - 1) \o SubSeq(s, k + 1, Len(s))

\* The user confirms input panel k with the text dir: on_path_confirmed(dir)
prompt_confirmed(k, dir) ==
    /\ k \in 1..Len(prompts)
    /\ prompts' = Remove(prompts, k)
    /\ requested' = Remove(requested, k)
    /\ on_path_confirmed(dir, file_name, goto_line, column)
    /\ outcome' = IF file_name.some THEN "open" ELSE "raised"
    /\ UNCHANGED <<text, attrs, file_name, column, goto_line, navs, cursor,
                   line_offset, hunk_line, checked, messages>>
    /\ UNCHANGED <<diffvars, scanvars>>

\* A panel whose on_cancel is on_path_confirmed with the panel's initial text
prompt_cancelled_confirms(k) ==
    /\ k \in 1..Len(prompts)
    /\ prompts' = Remove(prompts, k)
    /\ requested' = Remove(requested, k)
    /\ outcome' = "cancelled"
    /\ on_path_confirmed(prompts[k].initial, file_name, goto_line, column)
    /\ UNCHANGED <<text, attrs, file_name, column, goto_line, navs, cursor,
                   line_offset, hunk_line, checked, messages>>
    /\ UNCHANGED <<diffvars, scanvars>>

\* The user dismisses input panel k (its on_cancel is None)
prompt_cancelled(k) ==
    /\ k \in 1..Len(prompts)
    /\ prompts' = Remove(prompts, k)
    /\ requested' = Remove(requested, k)
    /\ outcome' = "cancelled"
    /\ UNCHANGED <<text, git_root_dir, writes, attrs, file_name, column, goto_line,
                   navs, cursor, line_offset, hunk_line, checked, messages,
                   opened, loading, positioned>>
    /\ UNCHANGED <<diffvars, scanvars>>

\* An opened view finishes loading: do_when's poll runs goto_xy with the
\* attribute values of that moment
view_loaded(n) ==
    /\ n \in loading
    /\ loading' = loading \ {n}
    /\ positioned' = Append(positioned, [view |-> n, line |-> goto_line, column |-> column])
    /\ UNCHANGED <<text, git_root_dir, writes, attrs, file_name, column, goto_line,
                   navs, cursor, outcome, line_offset, hunk_line, checked, messages,
                   prompts, requested, opened>>
    /\ UNCHANGED <<diffvars, scanvars>>

\* Cursor positions tried: the points at most MaxCol characters after the
\* start of their line
Cursors ==
    UNION {{a + d : d \in {d \in 0..MaxCol :
                              /\ a + d <= Len(text)
                              /\ \A e \in 1..d : text[a + e] # "\n"}}
              : a \in {0} \cup {p \in 1..Len(text) : text[p] = "\n"}}

\* a view on which GitGotoDiff.run has not run yet
GotoIdle ==
    /\ git_root_dir = None
    /\ writes = 0
    /\ attrs = {}
    /\ file_name = None
    /\ column = 0
    /\ goto_line = 0
    /\ navs = 0
    /\ cursor = 0
    /\ outcome = "none"
    /\ line_offset = 0
    /\ hunk_line = None
    /\ checked = [base |-> None, path |-> <<>>, exists |-> FALSE]
    /\ messages = 0
    /\ prompts = <<>>
    /\ requested = <<>>
    /\ opened = <<>>
    /\ loading = {}
    /\ positioned = <<>>
    /\ pt = 0
    /\ iterations = 0

\* a command object on which GitDiff.run has not run yet
DiffFresh ==
    /\ ita = {}
    /\ started = 0
    /\ ignore_whitespace = FALSE
    /\ has_empty_stages = FALSE
    /\ empty_stages = <<>>
    /\ staging = [i \in Invs |-> FALSE]
    /\ inflight = [i \in Invs |-> NoCmd]
    /\ log = [i \in Invs |-> <<>>]
    /\ listing = [i \in Invs |-> <<>>]
    /\ shown = [i \in Invs |-> "none"]
    /\ raised = [i \in Invs |-> FALSE]

GotoInit ==
    /\ text \in {JoinLines(ls) : ls \in Texts}
    /\ GotoIdle
    /\ untracked = {}
    /\ modified = FALSE
    /\ DiffFresh

GotoNext ==
    \/ navs < MaxNav /\ \E beg \in Cursors : GitGotoDiff_run(beg)
    \/ \E k \in 1..Len(prompts) : \E dir \in PromptInputs(prompts[k].initial) :
           prompt_confirmed(k, dir)
    \/ \E k \in 1..Len(prompts) : prompt_cancelled(k)
    \/ \E n \in loading : view_loaded(n)

GotoSpec == GotoInit /\ [][GotoNext]_vars

\* The same view with one more run allowed, so that a run can find the input
\* panel of an earlier run still waiting
NavNext ==
    \/ \E beg \in Cursors : GitGotoDiff_run_again(beg)
    \/ \E k \in 1..Len(prompts) : \E dir \in PromptInputs(prompts[k].initial) :
           prompt_confirmed(k, dir)
    \/ \E k \in 1..Len(prompts) : prompt_cancelled(k)
    \/ \E n \in loading : view_loaded(n)

NavSpec == GotoInit /\ [][NavNext]_vars

\* GitGotoDiff.run, one loop iteration at a time
EmptyLine == <<>>

ScanAlphabet == {EmptyLine, FileMarkerLine, HunkLine, AddedLine}

ScanTexts == UNION {[1..n -> ScanAlphabet] : n \in 1..MaxLines}

\* the loop's variables as ScanStep takes them
LoopState ==
    [pt |-> pt, hunk_line |-> hunk_line, file_name |-> file_name,
     line_offset |-> line_offset, break |-> FALSE]

\* GitGotoDiff.run up to the first test of 'while pt > 0' (lines 97-111)
scan_begin(beg) ==
    /\ navs < MaxNav
    /\ outcome # "scanning"
    /\ navs' = navs + 1
    /\ IF ~ScopeInserted(text, beg) /\ ~ScopeDeleted(text, beg)
       THEN /\ outcome' = "NotApplicable"
            /\ UNCHANGED <<attrs, file_name, column, cursor, line_offset, hunk_line,
                           pt, iterations>>
       ELSE /\ outcome' = "scanning"
            /\ cursor' = beg
            /\ pt' = LineA(text, beg)
            /\ column' = beg - LineA(text, beg) - 1
            /\ file_name' = None
            /\ hunk_line' = None
            /\ line_offset' = 0
            /\ iterations' = 0
            /\ attrs' = attrs \cup {"column", "file_name"}
    /\ UNCHANGED <<text, git_root_dir, writes, goto_line, checked, messages, prompts,
                   requested, opened, loading, positioned>>
    /\ UNCHANGED diffvars

\* One pass through the loop body (lines 113-125); a break goes on with the
\* rest of run
scan_iteration ==
    /\ outcome = "scanning"
    /\ pt > 0
    /\ iterations <= MaxLines
    /\ \E st \in {ScanStep(text, LoopState)} :
          /\ iterations' = iterations + 1
          /\ pt' = st.pt
          /\ IF st.break
             THEN after_scan(st, column)
             ELSE /\ hunk_line' = st.hunk_line
                  /\ line_offset' = st.line_offset
                  /\ UNCHANGED <<git_root_dir, writes, attrs, file_name, column,
                                 goto_line, outcome, checked, messages, prompts,
                                 requested, opened, loading, positioned>>
    /\ UNCHANGED <<text, navs, cursor>>
    /\ UNCHANGED diffvars

\* The test 'while pt > 0' fails: the rest of run (lines 127-158)
scan_exit ==
    /\ outcome = "scanning"
    /\ pt <= 0
    /\ after_scan(LoopState, column)
    /\ UNCHANGED <<text, navs, cursor, pt, iterations>>
    /\ UNCHANGED diffvars

ScanInit ==
    /\ text \in {JoinLines(ls) : ls \in ScanTexts}
    /\ GotoIdle
    /\ untracked = {}
    /\ modified = FALSE
    /\ DiffFresh

ScanNext ==
    \/ \E beg \in Cursors : scan_begin(beg)
    \/ scan_iteration
    \/ scan_exit

\* the control thread goes on running a run that has started
ScanSpec ==
    ScanInit /\ [][ScanNext]_vars /\ WF_vars(scan_iteration) /\ WF_vars(scan_exit)

DiffInit ==
    /\ untracked \in SUBSET {Paths[k] : k \in 1..Len(Paths)}
    /\ modified \in BOOLEAN
    /\ DiffFresh
    /\ text = FileMarkerLine
    /\ GotoIdle

DiffNext ==
    \/ \E iw \in BOOLEAN, setting \in BOOLEAN : GitDiff_run(iw, setting) /\ UNCHANGED <<gotovars, scanvars>>
    \/ \E i \in Invs : stage_untracked_files_result(i) /\ UNCHANGED <<gotovars, scanvars>>
    \/ \E i \in Invs : add_done(i) /\ UNCHANGED <<gotovars, scanvars>>
    \/ \E i \in Invs, result \in DiffOutputs, diff_panel \in BOOLEAN :
           diff_done(i, result, diff_panel) /\ UNCHANGED <<gotovars, scanvars>>
    \/ \E i \in Invs : reset_done(i) /\ UNCHANGED <<gotovars, scanvars>>

Spec == DiffInit /\ [][DiffNext]_vars

\* ------------------------------------------------------- GitDiff properties
\* the git subcommand of a logged command
Name(e) == e.argv[2]

Events(i, ev, name) == {k \in 1..Len(log[i]) : log[i][k].ev = ev /\ Name(log[i][k]) = name}

\* the names of the commands invocation i started, in order
StartedNames(i) ==
    LET st == SelectSeq(log[i], LAMBDA e : e.ev = "start")
    IN [k \in 1..Len(st) |-> Name(st[k])]

\* invocation i has run and has no command in flight and no callback to come
Quiet(i) == i <= started /\ inflight[i] = NoCmd

IsPrefix(s, t) == Len(s) <= Len(t) /\ SubSeq(t, 1, Len(s)) = s

\* number of lines of a status listing that begin with '??'
NumUntrackedLines(out) ==
    Cardinality({k \in 1..Len(out) - 1 :
        /\ out[k] = "?" /\ out[k + 1] = "?"
        /\ (k = 1 \/ out[k - 1] = "\n")})

\* C1 (as claimed): an invocation that issued the intent-to-add staging
\* command has, once it is over, issued the reset command for those paths,
\* whatever the diff output was, and the index has no intent-to-add entry left
\* when every invocation is over.
C1_ResetAfterStage ==
    /\ \A i \in Invs :
          (Quiet(i) /\ Events(i, "start", "add") # {}) =>
              \E k \in Events(i, "start", "reset") : log[i][k].paths = UntrackedOf(listing[i])
    /\ (started > 0 /\ \A i \in 1..started : Quiet(i)) => ita = {}

\* C2 (as claimed): an invocation that is over has issued exactly one
\* 'git diff' command, whether staging was disabled, enabled with untracked
\* files, or enabled with a listing without '??' lines.
C2_OneDiffPerRun ==
    \A i \in Invs : Quiet(i) => Cardinality(Events(i, "start", "diff")) = 1

\* C3: in an invocation with staging enabled the commands are started in the
\* order status, add, diff, reset; the diff command starts only after the add
\* command has finished and the reset command only after the diff command has
\* finished (its output delivered to diff_done).
C3_Order ==
    \A i \in Invs : staging[i] =>
        /\ IsPrefix(StartedNames(i), <<"status", "add", "diff", "reset">>)
        /\ \A k \in Events(i, "start", "diff") :
               \E j \in Events(i, "finish", "add") : j < k
        /\ \A k \in Events(i, "start", "reset") :
               \E j \in Events(i, "finish", "diff") : j < k

\* an invocation with staging enabled that went through all four commands
C3_Witness ==
    \E i \in Invs :
        staging[i] /\ StartedNames(i) = <<"status", "add", "diff", "reset">>

\* C4: once the status listing has returned, an invocation whose listing has
\* no '??' line never issues a staging or a reset command, and one whose
\* listing has N >= 1 such lines issues exactly one staging command.
C4_StageOnce ==
    \A i \in Invs : Events(i, "finish", "status") # {} =>
        IF NumUntrackedLines(listing[i]) = 0
        THEN Events(i, "start", "add") = {} /\ Events(i, "start", "reset") = {}
        ELSE Cardinality(Events(i, "start", "add")) = 1

\* one invocation over after a listing of two '??' lines and one staging
\* command, another over after a listing without '??' lines
C4_Witness ==
    \E i, j \in Invs :
        /\ Quiet(i) /\ NumUntrackedLines(listing[i]) = 2
        /\ Cardinality(Events(i, "start", "add")) = 1
        /\ Quiet(j) /\ Events(j, "finish", "status") # {}
        /\ NumUntrackedLines(listing[j]) = 0

\* C5 (as claimed): with diff_untracked_files disabled, an invocation that
\* displayed a non-empty diff raised nothing and issued the diff command only.
C5_DisabledOnlyDiff ==
    \A i \in Invs :
        (i <= started /\ ~staging[i] /\ shown[i] \in {"panel", "scratch"}) =>
            ~raised[i] /\ StartedNames(i) = <<"diff">>

\* the line of a status listing that names path p as untracked
UntrackedLine(p) == <<"?", "?", " ">> \o p

TextLines == Split(text)

\* 1-based number of the line the latest scanned cursor is on
CursorLine == 1 + Cardinality({k \in 1..cursor : text[k] = "\n"})

\* some run passed the scope test, so cursor, column, file_name, line_offset
\* and hunk_line are those of the latest such run
Scanned == attrs # {}

HunkBody == {AddedLine, RemovedLine, ContextLine}

\* in the lines ls, line cl is an Added line of the hunk whose well-formed
\* header is line h, and a FileMarker line precedes that header
InHunk(ls, cl, h) ==
    /\ ls[cl] = AddedLine
    /\ h < cl
    /\ ls[h] = HunkLine
    /\ \A j \in (h + 1)..(cl - 1) : ls[j] \in HunkBody
    /\ \E f \in 1..(h - 1) : ls[f] = FileMarkerLine

\* lines of the new file between the header h and line cl
NewLinesBetween(ls, cl, h) ==
    Cardinality({j \in (h + 1)..(cl - 1) : ls[j] \in {AddedLine, ContextLine}})

\* C6: for a cursor on an Added line of a hunk whose well-formed header (new
\* start 12 in HunkLine) follows a FileMarker line, goto_line is the new start
\* plus the number of Added and Context lines strictly between the header and
\* the cursor's line.
C6_GotoLine ==
    (Scanned /\ LineText(text, cursor) = AddedLine) =>
        \A ls \in {TextLines} : \A cl \in {CursorLine} : \A h \in 1..(cl - 1) :
            InHunk(ls, cl, h) =>
                "goto_line" \in attrs /\ goto_line = 12 + NewLinesBetween(ls, cl, h)

\* a cursor on an Added line with one Context or Added line between it and
\* the header: the target is line 13
C6_Witness ==
    /\ Scanned
    /\ \E ls \in {TextLines} : \E cl \in {CursorLine} : \E h \in 1..(cl - 1) :
          InHunk(ls, cl, h) /\ cl = h + 2 /\ NewLinesBetween(ls, cl, h) = 1
    /\ goto_line = 13

\* the latest scanned cursor is on an Added line directly below the header of
\* a hunk
BelowHeader ==
    /\ Scanned
    /\ LineText(text, cursor) = AddedLine
    /\ \E ls \in {TextLines} : \E cl \in {CursorLine} :
          cl > 1 /\ InHunk(ls, cl, cl - 1)

\* C7 (as claimed), for a navigation that went on to resolve its path: the
\* scan never counts the cursor's own line: for a cursor on an Added line
\* directly below the hunk header, line_offset is 0 and the target line is
\* new_start - 1.
C7_AsClaimed ==
    (BelowHeader /\ outcome \in {"prompt", "open"}) =>
        line_offset = 0 /\ goto_line = 12 - 1

\* C7 (amended): the scan starts at the cursor's own line and counts it: for
\* a cursor on an Added line directly below the hunk header, line_offset is 1
\* and the target line is new_start.
C7_ScanCountsCursorLine ==
    BelowHeader => line_offset = 1 /\ "goto_line" \in attrs /\ goto_line = 12

\* such a navigation went on to open the file
C7_Witness ==
    BelowHeader /\ outcome = "open" /\ line_offset = 1 /\ Len(opened) = 1

\* C8 (as claimed): a scan that found no line starting with '@@' ends in the
\* ParseFailure outcome: 'No hunk info' message, no exception, no prompt, no
\* file opened, no setting written.
C8_NoHeaderIsParseFailure ==
    (Scanned /\ ~hunk_line.some) =>
        /\ outcome = "No hunk info"
        /\ messages > 0
        /\ prompts = <<>> /\ opened = <<>> /\ writes = 0

\* C9 (as claimed), for a scan that found a hunk header: a scan that reached
\* the top of the text without a FileMarker ends in ParseFailure: no
\* exception, no prompt, no file opened.
C9_NoFileMarkerIsParseFailure ==
    (Scanned /\ hunk_line.some /\ ~file_name.some) =>
        /\ outcome = "No hunk info"
        /\ prompts = <<>> /\ opened = <<>>

\* a run that reached the os.path.isfile test
Resolving == navs' = navs + 1 /\ outcome' \in {"prompt", "open"}

\* C10: a run whose composed path (candidate base joined with the relative
\* path, or the relative path alone without a base) exists opens it at once
\* and shows no prompt; a run whose composed path does not exist shows a
\* prompt captioned with the relative path and pre-filled with the candidate
\* base (empty when none) and opens nothing; a file is opened otherwise only
\* by the confirmation of a prompt.
C10_PromptIffMissing ==
    [][ /\ Resolving =>
            LET rel == file_name'.v
                base == checked'.base
                full == IF Truthy(base) THEN base.v \o <<"/">> \o rel ELSE rel
            IN /\ Truthy(git_root_dir) => base = git_root_dir
               /\ ~Truthy(git_root_dir) => base \in Hints
               /\ checked'.path = full
               /\ IF checked'.exists
                  THEN prompts' = prompts /\ opened' = Append(opened, full)
                  ELSE /\ opened' = opened /\ loading' = loading
                       /\ positioned' = positioned
                       /\ prompts' = Append(prompts,
                             [caption |-> rel,
                              initial |-> IF Truthy(base) THEN base.v ELSE <<>>])
        /\ (opened' # opened /\ navs' = navs) => Len(prompts') = Len(prompts) - 1
      ]_vars

\* a run with a candidate base whose composed path does not exist: its prompt
\* is waiting and nothing is opened
C10_Witness ==
    /\ outcome = "prompt"
    /\ ~checked.exists /\ Truthy(checked.base)
    /\ Len(prompts) = 1 /\ prompts[1].initial = checked.base.v
    /\ opened = <<>>

\* the candidate base a is the stored base b; an empty or missing value on
\* either side is an absent base
SameBase(a, b) == IF Truthy(a) THEN a = b ELSE ~Truthy(b)

\* C11 (as claimed): a run that finds the composed path and opens it writes
\* the view's git_root_dir setting only when the candidate base differs from
\* the stored one: with equal bases, and with both absent, nothing is written;
\* with different bases the stored value afterwards is the candidate base.
C11_WriteOnlyWhenBaseDiffers ==
    [][ (navs' = navs + 1 /\ outcome' = "open") =>
            IF SameBase(checked'.base, git_root_dir)
            THEN writes' = writes /\ git_root_dir' = git_root_dir
            ELSE git_root_dir' = checked'.base
      ]_vars

\* C12: dismissing an input panel opens no file, schedules no cursor move
\* and leaves the view's git_root_dir setting as it is; the run that showed
\* the panel did not touch any of these either, so the setting is the one from
\* before the request.
C12_CancelHasNoEffect ==
    [][ ((Len(prompts') < Len(prompts) /\ outcome' = "cancelled")
            \/ Len(prompts') > Len(prompts)) =>
            /\ opened' = opened
            /\ loading' = loading
            /\ positioned' = positioned
            /\ git_root_dir' = git_root_dir
            /\ writes' = writes
      ]_vars

\* the only request on the view was dismissed: nothing opened, nothing
\* scheduled, nothing stored
C12_Witness ==
    /\ navs = 1
    /\ outcome = "cancelled"
    /\ prompts = <<>>
    /\ opened = <<>> /\ loading = {} /\ positioned = <<>>
    /\ git_root_dir = None /\ writes = 0

\* the step confirms input panel k
Confirms(k) ==
    /\ navs' = navs
    /\ outcome' # "cancelled"
    /\ prompts' = Remove(prompts, k)
    /\ requested' = Remove(requested, k)

\* C13 (as claimed), for views on which no run has just raised: runs on the
\* same view share nothing but the stored base: whatever ran while a panel
\* was waiting, its confirmation opens the file its own request computed, and
\* the cursor move made with it goes to the line and column its own request
\* computed.
C13_NoSharedState ==
    [][ \A k \in 1..Len(prompts) : (outcome # "raised" /\ Confirms(k)) =>
            /\ Len(opened') = Len(opened) + 1
            /\ \E dir \in PromptInputs(prompts[k].initial) :
                   opened'[Len(opened')] = Join(dir, requested[k].file)
            /\ positioned' # positioned =>
                   positioned'[Len(positioned')] =
                       [view |-> Len(opened'), line |-> requested[k].line,
                        column |-> requested[k].column]
      ]_vars

\* C18 (as claimed): the confirmation of an input panel with the directory
\* dir issues exactly one open request, for dir joined with the relative path
\* the panel asked about, makes no existence check and shows no further
\* panel, and dir is the stored base afterwards, written only if it differs
\* from the stored one.
C18_ConfirmOpensOnce ==
    [][ \A k \in 1..Len(prompts) : Confirms(k) =>
            /\ Len(opened') = Len(opened) + 1
            /\ \E dir \in PromptInputs(prompts[k].initial) :
                   /\ opened'[Len(opened')] = Join(dir, prompts[k].caption)
                   /\ git_root_dir' = Some(dir)
                   /\ writes' = IF git_root_dir = Some(dir) THEN writes ELSE writes + 1
            /\ checked' = checked
            /\ Len(prompts') = Len(prompts) - 1
      ]_vars

\* C14 (as claimed), for a scan that found a well-formed hunk header: when a
\* FileMarker line lies above the cursor's line, the scan ends with
\* self.file_name set to the path of the nearest one (the text after
\* '+++ b/', trimmed), wherever in the text that line is, the first line
\* included.
C14_FileMarkerAnywhere ==
    (Scanned /\ hunk_line = Some(HunkLine)) =>
        \A ls \in {TextLines} : \A cl \in {CursorLine} :
            (\E f \in 1..(cl - 1) : ls[f] = FileMarkerLine) =>
                file_name = Some(Strip(Drop(FileMarkerLine, 6)))

IsHeader(l) == StartsWith(l, <<"@", "@">>)

IsFileMarker(l) == StartsWith(l, <<"+", "+", "+", " ", "b", "/">>)

IsRemoved(l) == StartsWith(l, <<"-">>)

\* the largest element of a non-empty set of numbers
Max(S) == CHOOSE m \in S : \A n \in S : n <= m

\* the line at which a scan from line cl stops: the nearest FileMarker line
\* at or above cl, the first line apart; line 1 when there is none
StopLine(ls, cl) ==
    LET fs == {f \in 2..cl : IsFileMarker(ls[f])}
    IN IF fs = {} THEN 1 ELSE Max(fs)

\* the header lines a scan from line cl meets before it stops
HeadersMet(ls, cl) == {j \in (StopLine(ls, cl) + 1)..cl : IsHeader(ls[j])}

\* C15: the header remembered is the first line starting with '@@' that the
\* scan meets going up from the cursor (none when it meets none); a header
\* further up never replaces it; the scan goes on past it to the FileMarker
\* line, whose path it takes; and line_offset counts lines below that header
\* only (the lines that are not Removed lines).
C15_ClosestHeader ==
    Scanned =>
        \A ls \in {TextLines} : \A cl \in {CursorLine} : \A hs \in {HeadersMet(ls, cl)} :
            IF hs = {} THEN hunk_line = None
            ELSE /\ hunk_line = Some(ls[Max(hs)])
                 /\ line_offset =
                        Cardinality({j \in (Max(hs) + 1)..cl : ~IsRemoved(ls[j])})
                 /\ StopLine(ls, cl) > 1 =>
                        file_name = Some(Strip(Drop(ls[StopLine(ls, cl)], 6)))

\* a scan that met the well-formed header first and the malformed one above
\* it: the well-formed one is remembered
C15_Witness ==
    /\ Scanned
    /\ \E ls \in {TextLines} : \E cl \in {CursorLine} :
          /\ cl >= 4
          /\ ls[cl - 1] = HunkLine
          /\ ls[cl - 2] = BadHunkLine
    /\ hunk_line = Some(HunkLine)
    /\ line_offset = 1

\* the lines ls without line j
WithoutLine(ls, j) == SubSeq(ls, 1, j - 1) \o SubSeq(ls, j + 1, Len(ls))

\* the lines ls with the line l put in after line j
WithLineAfter(ls, j, l) == SubSeq(ls, 1, j) \o <<l>> \o SubSeq(ls, j + 1, Len(ls))

\* the header and line_offset a scan of the lines ls ends with, for a cursor
\* at beg
ScanResult(ls, beg) ==
    LET st == Scan(JoinLines(ls), beg)
    IN [hunk_line |-> st.hunk_line, line_offset |-> st.line_offset]

\* C16: the Removed lines between the remembered header and the cursor's
\* line have no part in line_offset: the scan of the text without any one of
\* them, and the scan of the text with one more Removed line right below the
\* header, end with the same header and the same line_offset (so with the
\* same target line) as the scan of the text itself.
C16_RemovedLinesDoNotCount ==
    []((Scanned /\ hunk_line.some) =>
        \A ls \in {TextLines} : \A cl \in {CursorLine} :
        \A h \in {Max(HeadersMet(ls, cl))} :
        \A same \in {[hunk_line |-> hunk_line, line_offset |-> line_offset]} :
            /\ \A j \in (h + 1)..(cl - 1) :
                   IsRemoved(ls[j]) =>
                       ScanResult(WithoutLine(ls, j), cursor - Len(ls[j]) - 1) = same
            /\ ScanResult(WithLineAfter(ls, h, RemovedLine),
                          cursor + Len(RemovedLine) + 1) = same)

\* a scan with a Removed line between the header and the cursor's Added
\* line: the target is the hunk's first line
C16_Witness ==
    /\ Scanned
    /\ hunk_line = Some(HunkLine)
    /\ \E ls \in {TextLines} : \E cl \in {CursorLine} :
          /\ cl >= 3
          /\ ls[cl] = AddedLine
          /\ ls[cl - 1] = RemovedLine
          /\ ls[cl - 2] = HunkLine
    /\ line_offset = 1
    /\ goto_line = 12

\* C19 (as claimed): the column a run records is the cursor's offset in its
\* line less one, and every cursor move made in an opened view has a column
\* of at least 0, also for a cursor on the marker character of its line.
C19_ColumnNonNegative ==
    /\ Scanned => column = cursor - LineA(text, cursor) - 1
    /\ \A k \in 1..Len(positioned) : positioned[k].column >= 0

\* a run is inside its loop
Scanning == outcome = "scanning"

\* C20: the loop ends. An iteration that does not break puts pt at the start
\* of a line further up (a smaller offset, never below 0); a run makes at
\* most one iteration per line at or above the cursor; and every run that
\* entered the loop leaves it.
C20_ScanTerminates ==
    /\ [][(Scanning /\ Scanning') => (pt' < pt /\ pt' >= 0 /\ pt' = LineA(text, pt'))]_vars
    /\ [](Scanned => iterations <= CursorLine)
    /\ Scanning ~> ~Scanning

\* a run that went through every line from the cursor's up to the second and
\* left the loop with pt = 0
C20_Witness ==
    /\ Scanned
    /\ ~Scanning
    /\ pt = 0
    /\ CursorLine >= 3
    /\ iterations = CursorLine - 1

====
